---- MODULE Spec2Model ----
(***************************************************************************)
(* Element Digitizer: the screen-capture overlay (CaptureController) and   *)
(* the application object that owns it (ElementDigitizerApp).              *)
(*                                                                         *)
(* All handlers run on the Qt UI thread, one at a time, so each handler is *)
(* one atomic action.  capture_completed is connected with a direct        *)
(* connection: emit() runs on_capture_completed before it returns, so the  *)
(* slot is part of the pointer-up action.                                  *)
(*                                                                         *)
(* Events are handed to the instance the application references            *)
(* (self.capture_controller).  An instance that is no longer referenced is *)
(* destroyed by reference counting and receives nothing.  The handlers     *)
(* themselves never test whether the widget is still shown, so an event    *)
(* handed to a closed, still referenced instance runs the handler's code.  *)
(***************************************************************************)
EXTENDS Integers, Sequences, FiniteSets, TLC

\* ---------------------------------------------------------------- bounds
\* capture_module.py:128  "rect.width() < 10 or rect.height() < 10"
MinSize == 10
\* How far beyond MinSize the x coordinates of the pointer go.
XBeyond == 1
\* How far left of the overlay a dragged pointer is reported (x = -Outside).
Outside == 2
\* How many CaptureController instances one run creates.
MaxOverlays == 2

\* x coordinates a press can report (inside the overlay).
PressX == {0} \cup ((MinSize - 1) .. (MinSize + XBeyond))
\* x coordinates a move or release can report: the pointer may have been
\* dragged off the overlay's left edge.
DragX == PressX \cup {-Outside}
\* y coordinates: one drag distance, tall enough in either direction.
CoordY == {0, MinSize + 1}

PressPoints == [x : PressX, y : CoordY]
DragPoints == [x : DragX, y : CoordY]

Buttons == {"LeftButton", "RightButton"}
Keys == {"Key_Escape", "Key_A"}
ActivationReasons == {"Trigger", "Context"}
\* sct.grab returns and Image.frombytes returns; sct.grab raises; Image.frombytes raises
GrabOutcomes == {"ok", "grab_raised", "convert_raised"}
\* start_capture runs through; CaptureController() raises; show() raises
StartOutcomes == {"ok", "create_raised", "show_raised"}
\* on_capture_completed runs through; AnnotationWindow(capture_data) raises
CompletedOutcomes == {"ok", "window_raised"}
\* generate_and_save returns True; save_screenshot fails; save_json_file fails
SaveOutcomes == {"ok", "screenshot_failed", "json_failed"}
\* the same, and build_json_structure raises
GenerateOutcomes == SaveOutcomes \cup {"build_raised"}

\* ------------------------------------------------------- Qt value types
\* QPoint(): the null point (0, 0).
QPoint0 == [x |-> 0, y |-> 0]

\* QRect(topLeft, bottomRight): Qt stores the two corners inclusively.
QRect(p1, p2) == [x1 |-> p1.x, y1 |-> p1.y, x2 |-> p2.x, y2 |-> p2.y]

\* QRect.width() / height(): x2 - x1 + 1, y2 - y1 + 1.
RectWidth(r) == r.x2 - r.x1 + 1
RectHeight(r) == r.y2 - r.y1 + 1

\* QRect.normalized() (Qt 6): a rectangle with negative width swaps its
\* left and right corners, and the corners change from exclusive to
\* inclusive: x1 := x2 + 1, x2 := x1 - 1; likewise for y.
QRectNormalized(r) ==
    LET nx == IF r.x2 < r.x1
              THEN [r EXCEPT !.x1 = r.x2 + 1, !.x2 = r.x1 - 1]
              ELSE r
    IN  IF nx.y2 < nx.y1
        THEN [nx EXCEPT !.y1 = nx.y2 + 1, !.y2 = nx.y1 - 1]
        ELSE nx

\* ------------------------------------------------------ perform_capture
\* rect = QRect(self.start_point, self.end_point).normalized()
SelectionRect(start, end) == QRectNormalized(QRect(start, end))

\* The size check with "and" for "or".
TooSmallBothOnly(rect) == RectWidth(rect) < MinSize /\ RectHeight(rect) < MinSize

\* if rect.width() < 10 or rect.height() < 10
TooSmall(rect) == RectWidth(rect) < MinSize \/ RectHeight(rect) < MinSize

\* screen_rect = [rect.x(), rect.y(), rect.x()+rect.width(), rect.y()+rect.height()]
ScreenRect(rect) ==
    << rect.x1, rect.y1, rect.x1 + RectWidth(rect), rect.y1 + RectHeight(rect) >>

\* The monitor with the box's right and bottom edges taken for its extent.
MonitorEdgesAsExtent(screen_rect) ==
    [ top    |-> screen_rect[2],
      left   |-> screen_rect[1],
      width  |-> screen_rect[3],
      height |-> screen_rect[4] ]

\* monitor = {"top", "left", "width", "height"} handed to mss
Monitor(screen_rect) ==
    [ top    |-> screen_rect[2],
      left   |-> screen_rect[1],
      width  |-> screen_rect[3] - screen_rect[1],
      height |-> screen_rect[4] - screen_rect[2] ]

\* self.sct.grab(monitor): the ScreenShot's size is the requested region's.
Grab(monitor) == [size |-> << monitor.width, monitor.height >>, order |-> "BGRX"]

\* Image.frombytes("RGB", screenshot_mss.size, screenshot_mss.bgra, "raw", "BGRX")
FromBytes(shot) == [mode |-> "RGB", size |-> shot.size]

\* CaptureData(bounding_box, screenshot_image)
CaptureData(bounding_box, screenshot_image) ==
    [bounding_box |-> bounding_box, screenshot_image |-> screenshot_image]

\* ----------------------------------------------------------------- state
VARIABLES
    capture_controller,  \* app.capture_controller: 0 is None, else the instance's id
    created,             \* number of CaptureController instances constructed
    shown,               \* ids of the overlays visible on screen
    ctrl,                \* fields of the referenced instance
    annotation_window,   \* app.annotation_window: << >> is None, else << window >>,
                         \* a window being its capture_data and whether it is on screen
    emitted,             \* CaptureData objects capture_completed carried in the last handler
    logged,              \* logging calls of the last handler, in order
    last_op,             \* the last handler: its name, instance and inputs
    cancelled,           \* the current instance got Escape while it was shown
    emit_count,          \* emissions of the current instance so far
    gesture_press,       \* where the current instance's last primary press was reported
    propagated,          \* an exception left the last handler
    pending,             \* hotkey_pressed signals queued for the UI thread
    hotkey_thread        \* the GlobalHotkeyThread: its running flag and where run() is

vars == << capture_controller, created, shown, ctrl, annotation_window,
           emitted, logged, last_op, cancelled, emit_count, gesture_press,
           propagated, pending, hotkey_thread >>

\* CaptureController.__init__
NewController ==
    [start_point |-> QPoint0, end_point |-> QPoint0, is_drawing |-> FALSE,
     sct_open |-> TRUE]

Log(level, msg) == [level |-> level, msg |-> msg]

\* What the last handler was: its name, the instance it ran on and whether
\* that instance was shown when the event arrived, the button or key it was
\* given, and for a pointer-up that entered perform_capture the press and
\* release positions and how perform_capture ended.  Further: the thread the
\* handler ran on, the number of sct.grab calls it made, how the
\* capture_completed slot ended, for start_capture how the handler before
\* it ended (EndOf), the files a save wrote, what a repaint drew, the
\* number of self.update() calls, for a save (save) the form as the handler
\* found and as it left it, the number of generate_and_save calls and what
\* the call returned, and for a handler that opened an annotation window
\* (windows) the number of annotation windows it found on screen and the
\* number on screen once it had opened the new one.
NoOp ==
    [op |-> "init", inst |-> 0, was_shown |-> FALSE, input |-> "none",
     press |-> QPoint0, release |-> QPoint0, outcome |-> "none",
     thread |-> "ui", grabs |-> 0, completed |-> "none",
     prev |-> "none", written |-> << >>, painted |-> << >>,
     updates |-> 0, save |-> "none", windows |-> "none"]

\* How handler op ended, as far as a capture's course goes: perform_capture's
\* or start_capture's outcome, on_capture_completed's exception, the Escape
\* key, or nothing of these.
EndOf(op) ==
    IF op.completed = "window_raised"
    THEN "window_raised"
    ELSE IF op.op \in {"mouseReleaseEvent", "start_capture"} /\ op.outcome # "none"
         THEN op.outcome
         ELSE IF op.op = "keyPressEvent" /\ op.input = "Key_Escape"
              THEN "escape"
              ELSE "none"

Op(name, inst, input) ==
    [NoOp EXCEPT !.op = name, !.inst = inst, !.was_shown = inst \in shown,
                 !.input = input]

Init ==
    /\ capture_controller = 0
    /\ created = 0
    /\ shown = {}
    /\ ctrl = NewController
    /\ annotation_window = << >>
    /\ emitted = << >>
    /\ logged = << >>
    /\ last_op = NoOp
    /\ cancelled = FALSE
    /\ emit_count = 0
    /\ gesture_press = QPoint0
    /\ propagated = FALSE
    /\ pending = 0
    /\ hotkey_thread = [running |-> TRUE, pc |-> "polling"]

\* QWidget.close() on the referenced instance, with closeEvent: the widget
\* is hidden and self.sct.close() releases the capture handle.
Closed(c) == [c EXCEPT !.sct_open = FALSE]

\* close() leaving the widget on screen.
HiddenKept(inst) == shown

Hidden(inst) == shown \ {inst}

\* ------------------------------------------------ ElementDigitizerApp
ClosePreviousNever == shown

\* "if self.capture_controller: self.capture_controller.close()"
ClosePrevious ==
    IF capture_controller # 0 THEN Hidden(capture_controller) ELSE shown

\* start_capture's "except Exception" left out: the exception leaves the slot.
StartCaptureUncaught ==
    /\ logged' = << Log("info", "start_capture") >>
    /\ propagated' = TRUE

\* start_capture's "except Exception": log the error and the traceback.
StartCaptureFailed ==
    /\ logged' = << Log("info", "start_capture"),
                    Log("error", "start_capture_failed"),
                    Log("error", "traceback") >>
    /\ propagated' = FALSE

\* start_capture: close the overlay in use, construct a new one, connect, show.
\* CaptureController() or show() may raise; the previous overlay is closed by
\* then.  The queue of hotkey signals is the caller's.
StartCapture ==
    /\ created < MaxOverlays
    /\ emitted' = << >>
    /\ UNCHANGED annotation_window
    /\ \E outcome \in StartOutcomes :
        /\ last_op' = [Op("start_capture", capture_controller, "none")
                         EXCEPT !.outcome = outcome,
                                !.prev = EndOf(last_op)]
        /\ shown' = ClosePrevious \cup (IF outcome = "ok" THEN {created + 1} ELSE {})
        /\ IF outcome = "create_raised"
           THEN /\ ctrl' = IF capture_controller # 0 THEN Closed(ctrl) ELSE ctrl
                /\ UNCHANGED << created, capture_controller, cancelled, emit_count,
                                gesture_press >>
           ELSE /\ created' = created + 1
                /\ capture_controller' = created + 1
                /\ ctrl' = NewController
                /\ cancelled' = FALSE
                /\ emit_count' = 0
                /\ gesture_press' = QPoint0
        /\ IF outcome = "ok"
           THEN /\ logged' = << Log("info", "start_capture"), Log("info", "screen_size") >>
                /\ propagated' = FALSE
           ELSE StartCaptureFailed

\* tray menu action "start capture": triggered.connect(self.start_capture)
TrayMenuCapture == StartCapture /\ UNCHANGED << pending, hotkey_thread >>

\* hotkey_pressed.connect(self.start_capture): the slot runs for a hotkey
\* press, the queue between the listener's thread and the UI thread left out
HotkeyPressed == StartCapture /\ UNCHANGED << pending, hotkey_thread >>

\* The listener calling start_capture itself instead of emitting the signal.
OnHotkeyPressedDirect ==
    /\ created + pending < MaxOverlays
    /\ created' = created + 1
    /\ capture_controller' = created + 1
    /\ shown' = ClosePrevious \cup {created + 1}
    /\ ctrl' = NewController
    /\ last_op' = [Op("on_hotkey_pressed", capture_controller, "none")
                     EXCEPT !.thread = "listener"]
    /\ emitted' = << >>
    /\ logged' = << >>
    /\ propagated' = FALSE
    /\ cancelled' = FALSE
    /\ emit_count' = 0
    /\ gesture_press' = QPoint0
    /\ UNCHANGED << annotation_window, pending, hotkey_thread >>

\* GlobalHotkeyThread.on_hotkey_pressed, called on the listener's thread:
\* it emits hotkey_pressed and touches nothing else.  The connection to
\* start_capture crosses threads, so the signal is queued.  A run holds at
\* most MaxOverlays start-captures, queued ones included.
OnHotkeyPressed ==
    /\ created + pending < MaxOverlays
    /\ pending' = pending + 1
    /\ last_op' = [Op("on_hotkey_pressed", capture_controller, "none")
                     EXCEPT !.thread = "listener"]
    /\ emitted' = << >>
    /\ logged' = << >>
    /\ propagated' = FALSE
    /\ UNCHANGED << capture_controller, created, shown, ctrl, annotation_window,
                    cancelled, emit_count, gesture_press, hotkey_thread >>

\* The UI thread's event loop takes a queued hotkey_pressed signal and runs
\* the slot start_capture.
HotkeyDelivered ==
    /\ pending > 0
    /\ pending' = pending - 1
    /\ StartCapture
    /\ UNCHANGED hotkey_thread

\* tray_icon_clicked(reason): only a plain click (Trigger) starts a capture
TrayIconClicked(reason) ==
    /\ UNCHANGED << pending, hotkey_thread >>
    /\ IF reason = "Trigger"
       THEN StartCapture
       ELSE /\ last_op' = Op("tray_icon_clicked", capture_controller, reason)
            /\ emitted' = << >>
            /\ logged' = << >>
            /\ propagated' = FALSE
            /\ UNCHANGED << capture_controller, created, shown, ctrl, annotation_window,
                            cancelled, emit_count, gesture_press >>

\* AnnotationWindow(capture_data): the window keeps the capture and shows
\* itself (setup_window).
AnnotationWindow(capture_data) == [capture_data |-> capture_data, visible |-> TRUE]

\* "if self.annotation_window: self.annotation_window.close()" left out.
CloseWindowNever(window) == window

\* "if self.annotation_window: self.annotation_window.close()": the
\* referenced window, if any, leaves the screen; the reference stays.
CloseWindow(window) ==
    IF window # << >>
    THEN << [window[1] EXCEPT !.visible = FALSE] >>
    ELSE window

\* The annotation windows on screen when self.annotation_window is window:
\* a window no longer referenced is destroyed by reference counting.
OpenWindows(window) == IF window # << >> /\ window[1].visible THEN 1 ELSE 0

\* on_capture_completed's "except Exception": log the error and the traceback.
CompletedFailed ==
    /\ logged' = << Log("info", "capture_region"),
                    Log("info", "screenshot_size"),
                    Log("info", "capture_completed"),
                    Log("error", "capture_completed_failed"),
                    Log("error", "traceback") >>
    /\ propagated' = FALSE

\* on_capture_completed opening the annotation window without closing the
\* overlay or dropping the reference.
OnCaptureCompletedKeepsOverlay(capture_data, completed) ==
    /\ UNCHANGED << shown, capture_controller, ctrl >>
    /\ annotation_window' = << AnnotationWindow(capture_data) >>
    /\ logged' = << Log("info", "annotation_window_created") >>
    /\ propagated' = FALSE

\* on_capture_completed(capture_data): close the overlay, drop the reference,
\* close the annotation window in use and open one for capture_data.
\* The emitting instance, unreferenced, is destroyed when its handler returns.
\* When AnnotationWindow(capture_data) raises, self.annotation_window keeps
\* the window it referenced, closed.
OnCaptureCompleted(capture_data, completed) ==
    /\ shown' = ClosePrevious
    /\ capture_controller' = 0
    /\ ctrl' = NewController
    /\ IF completed = "ok"
       THEN /\ annotation_window' = << AnnotationWindow(capture_data) >>
            /\ logged' = << Log("info", "capture_region"),
                            Log("info", "screenshot_size"),
                            Log("info", "capture_completed"),
                            Log("info", "annotation_window_created") >>
            /\ propagated' = FALSE
       ELSE /\ annotation_window' = CloseWindow(annotation_window)
            /\ CompletedFailed

\* ---------------------------------------------------- CaptureController
\* mousePressEvent recording the start point only.
MousePressEventStartOnly(button, pos) ==
    /\ capture_controller # 0
    /\ IF button = "LeftButton"
       THEN /\ ctrl' = [ctrl EXCEPT !.start_point = pos, !.is_drawing = TRUE]
            /\ gesture_press' = pos
            /\ logged' = << Log("debug", "start_drawing") >>
       ELSE /\ UNCHANGED << ctrl, gesture_press >>
            /\ logged' = << >>
    /\ last_op' = Op("mousePressEvent", capture_controller, button)
    /\ emitted' = << >>
    /\ propagated' = FALSE
    /\ UNCHANGED << capture_controller, created, shown, annotation_window,
                    cancelled, emit_count, pending, hotkey_thread >>

\* mousePressEvent
MousePressEvent(button, pos) ==
    /\ capture_controller # 0
    /\ IF button = "LeftButton"
       THEN /\ ctrl' = [ctrl EXCEPT !.start_point = pos, !.end_point = pos,
                                    !.is_drawing = TRUE]
            /\ gesture_press' = pos
            /\ logged' = << Log("debug", "start_drawing") >>
       ELSE /\ UNCHANGED << ctrl, gesture_press >>
            /\ logged' = << >>
    /\ last_op' = Op("mousePressEvent", capture_controller, button)
    /\ emitted' = << >>
    /\ propagated' = FALSE
    /\ UNCHANGED << capture_controller, created, shown, annotation_window,
                    cancelled, emit_count, pending, hotkey_thread >>

\* mouseMoveEvent following the pointer whether or not a drag is on.
MouseMoveEventAlways(pos) ==
    /\ capture_controller # 0
    /\ ctrl' = [ctrl EXCEPT !.end_point = pos]
    /\ last_op' = [Op("mouseMoveEvent", capture_controller, "none") EXCEPT !.updates = 1]
    /\ emitted' = << >>
    /\ logged' = << >>
    /\ propagated' = FALSE
    /\ UNCHANGED << capture_controller, created, shown, annotation_window,
                    cancelled, emit_count, gesture_press, pending, hotkey_thread >>

\* mouseMoveEvent: while is_drawing, end_point follows the pointer and a
\* repaint is requested with self.update().
MouseMoveEvent(pos) ==
    /\ capture_controller # 0
    /\ ctrl' = IF ctrl.is_drawing THEN [ctrl EXCEPT !.end_point = pos] ELSE ctrl
    /\ last_op' = [Op("mouseMoveEvent", capture_controller, "none")
                     EXCEPT !.updates = IF ctrl.is_drawing THEN 1 ELSE 0]
    /\ emitted' = << >>
    /\ logged' = << >>
    /\ propagated' = FALSE
    /\ UNCHANGED << capture_controller, created, shown, annotation_window,
                    cancelled, emit_count, gesture_press, pending, hotkey_thread >>

\* keyPressEvent closing the overlay on any key.
KeyPressEventAnyKey(key) ==
    /\ capture_controller # 0
    /\ logged' = << Log("info", "cancelled") >>
    /\ shown' = Hidden(capture_controller)
    /\ ctrl' = Closed(ctrl)
    /\ cancelled' = (cancelled \/ capture_controller \in shown)
    /\ last_op' = Op("keyPressEvent", capture_controller, key)
    /\ emitted' = << >>
    /\ propagated' = FALSE
    /\ UNCHANGED << capture_controller, created, annotation_window, emit_count,
                    gesture_press, pending, hotkey_thread >>

\* keyPressEvent: Escape logs and closes; nothing else is touched.
KeyPressEvent(key) ==
    /\ capture_controller # 0
    /\ IF key = "Key_Escape"
       THEN /\ logged' = << Log("info", "cancelled") >>
            /\ shown' = Hidden(capture_controller)
            /\ ctrl' = Closed(ctrl)
            /\ cancelled' = (cancelled \/ capture_controller \in shown)
       ELSE /\ logged' = << >>
            /\ UNCHANGED << shown, ctrl, cancelled >>
    /\ last_op' = Op("keyPressEvent", capture_controller, key)
    /\ emitted' = << >>
    /\ propagated' = FALSE
    /\ UNCHANGED << capture_controller, created, annotation_window, emit_count,
                    gesture_press, pending, hotkey_thread >>

\* perform_capture without its try/except: the exception leaves the handler.
CaptureFailedUncaught(c) ==
    /\ logged' = << Log("info", "capture_region") >>
    /\ ctrl' = c
    /\ propagated' = TRUE
    /\ UNCHANGED shown

\* perform_capture's "except Exception": log the error and the traceback, close.
CaptureFailed(c) ==
    /\ logged' = << Log("info", "capture_region"),
                    Log("error", "capture_failed"),
                    Log("error", "traceback") >>
    /\ shown' = Hidden(capture_controller)
    /\ ctrl' = Closed(c)
    /\ propagated' = FALSE

\* sct.grab called although the selection is too small.
GrabRequestsAlways(rect) == 1

\* The number of sct.grab calls perform_capture makes for rect: the early
\* return of the size check comes before the one grab.
GrabRequests(rect) == IF TooSmall(rect) THEN 0 ELSE 1

\* perform_capture, entered from mouseReleaseEvent for a pointer-up at pos
\* with the instance's fields c (end_point already set to the release
\* position, is_drawing cleared).
\* Once the size check has passed, sct.grab and then Image.frombytes either
\* return or raise: the platform decides.
PerformCapture(c, pos) ==
    LET rect == SelectionRect(c.start_point, c.end_point)
        screen_rect == ScreenRect(rect)
        monitor == Monitor(screen_rect)
        capture_data == CaptureData(screen_rect, FromBytes(Grab(monitor)))
        op == [Op("mouseReleaseEvent", capture_controller, "LeftButton")
                 EXCEPT !.press = gesture_press, !.release = pos]
    IN  /\ UNCHANGED << created, cancelled, gesture_press, pending, hotkey_thread >>
        /\ IF TooSmall(rect)
           THEN /\ logged' = << Log("warning", "too_small") >>
                /\ shown' = Hidden(capture_controller)
                /\ ctrl' = Closed(c)
                /\ emitted' = << >>
                /\ last_op' = [op EXCEPT !.outcome = "too_small",
                                         !.grabs = GrabRequests(rect)]
                /\ propagated' = FALSE
                /\ UNCHANGED << capture_controller, annotation_window, emit_count >>
           ELSE \E outcome \in GrabOutcomes :
                IF outcome # "ok"
                THEN /\ CaptureFailed(c)
                     /\ emitted' = << >>
                     /\ last_op' = [op EXCEPT !.outcome = outcome,
                                              !.grabs = GrabRequests(rect)]
                     /\ UNCHANGED << capture_controller, annotation_window, emit_count >>
                ELSE \E completed \in CompletedOutcomes :
                     /\ emitted' = << capture_data >>
                     /\ emit_count' = emit_count + 1
                     /\ last_op' = [op EXCEPT !.outcome = outcome,
                                              !.grabs = GrabRequests(rect),
                                              !.completed = completed,
                                              !.windows =
                                                 IF completed = "ok"
                                                 THEN [found |-> OpenWindows(annotation_window),
                                                       open |-> OpenWindows(CloseWindow(annotation_window)) + 1]
                                                 ELSE "none"]
                     /\ OnCaptureCompleted(capture_data, completed)

\* mouseReleaseEvent capturing with the end point of the last move.
MouseReleaseEventKeepsEnd(button, pos) ==
    /\ capture_controller # 0
    /\ IF button = "LeftButton" /\ ctrl.is_drawing
       THEN PerformCapture([ctrl EXCEPT !.is_drawing = FALSE], pos)
       ELSE /\ last_op' = Op("mouseReleaseEvent", capture_controller, button)
            /\ emitted' = << >>
            /\ logged' = << >>
            /\ propagated' = FALSE
            /\ UNCHANGED << capture_controller, created, shown, ctrl, annotation_window,
                            cancelled, emit_count, gesture_press, pending, hotkey_thread >>

\* mouseReleaseEvent
MouseReleaseEvent(button, pos) ==
    /\ capture_controller # 0
    /\ IF button = "LeftButton" /\ ctrl.is_drawing
       THEN PerformCapture([ctrl EXCEPT !.end_point = pos, !.is_drawing = FALSE], pos)
       ELSE /\ last_op' = Op("mouseReleaseEvent", capture_controller, button)
            /\ emitted' = << >>
            /\ logged' = << >>
            /\ propagated' = FALSE
            /\ UNCHANGED << capture_controller, created, shown, ctrl, annotation_window,
                            cancelled, emit_count, gesture_press, pending, hotkey_thread >>

\* The positions to enumerate for a button's event: the handlers read the
\* position of a LeftButton event only.
EventPoints(button, points) == IF button = "LeftButton" THEN points ELSE {QPoint0}

\* The positions to enumerate for a move or a release: mouseMoveEvent and
\* mouseReleaseEvent read the position only while is_drawing.
DrawingPoints(points) == IF ctrl.is_drawing THEN points ELSE {QPoint0}

Next ==
    \/ TrayMenuCapture
    \/ HotkeyPressed
    \/ \E reason \in ActivationReasons : TrayIconClicked(reason)
    \/ \E button \in Buttons :
         \E pos \in EventPoints(button, PressPoints) : MousePressEvent(button, pos)
    \/ \E pos \in DrawingPoints(DragPoints) : MouseMoveEvent(pos)
    \/ \E button \in Buttons :
         \E pos \in DrawingPoints(EventPoints(button, DragPoints)) :
            MouseReleaseEvent(button, pos)
    \/ \E key \in Keys : KeyPressEvent(key)

Spec == Init /\ [][Next]_vars

\* A capture started from the tray menu while no overlay is on screen.
StartWhenClosed ==
    /\ capture_controller \notin shown
    /\ TrayMenuCapture

\* The program with every pointer and key event, one overlay at a time.
NextInert ==
    \/ StartWhenClosed
    \/ \E button \in Buttons :
         \E pos \in EventPoints(button, PressPoints) : MousePressEvent(button, pos)
    \/ \E pos \in DrawingPoints(DragPoints) : MouseMoveEvent(pos)
    \/ \E button \in Buttons :
         \E pos \in DrawingPoints(EventPoints(button, DragPoints)) :
            MouseReleaseEvent(button, pos)
    \/ \E key \in Keys : KeyPressEvent(key)

SpecInert == Init /\ [][NextInert]_vars

\* A pointer-up that ends a drag which was moved, before the release, to a
\* position that is neither the press nor the release position.
ReleaseAfterDetour(pos) ==
    /\ capture_controller # 0
    /\ ctrl.is_drawing
    /\ ctrl.end_point \notin {ctrl.start_point, pos}
    /\ MouseReleaseEvent("LeftButton", pos)

\* The program driven from the tray menu by gestures that all pass through
\* such an intermediate position.
NextDrag ==
    \/ TrayMenuCapture
    \/ \E pos \in PressPoints : MousePressEvent("LeftButton", pos)
    \/ \E pos \in DrawingPoints(DragPoints) : MouseMoveEvent(pos)
    \/ \E pos \in DragPoints : ReleaseAfterDetour(pos)

SpecDrag == Init /\ [][NextDrag]_vars

\* GlobalHotkeyThread.stop left out of quit_application.
StopNever(thread) == thread

\* GlobalHotkeyThread.stop: self.running = False
Stop(thread) == [thread EXCEPT !.running = FALSE]

\* quit_application (tray menu "quit"): stop the listener, close the overlay
\* and the annotation window the application references, leave the event loop.
\* wait(1000) returns when run() has returned or after a second; run()
\* returning is the thread's own step (Run) and touches nothing else.
QuitApplication ==
    /\ hotkey_thread' = Stop(hotkey_thread)
    /\ shown' = ClosePrevious
    /\ ctrl' = IF capture_controller # 0 THEN Closed(ctrl) ELSE ctrl
    /\ annotation_window' = CloseWindow(annotation_window)
    /\ last_op' = Op("quit_application", capture_controller, "none")
    /\ logged' = << Log("info", "quitting") >>
    /\ emitted' = << >>
    /\ propagated' = FALSE
    /\ UNCHANGED << capture_controller, created, cancelled, emit_count,
                    gesture_press, pending >>

\* app.quit() has not been called: the event loop still dispatches.
Running == last_op.op # "quit_application"

\* The program with the tray menu's quit; no handler runs after it.
NextQuit ==
    \/ Running /\ Next
    \/ Running /\ QuitApplication

SpecQuit == Init /\ [][NextQuit]_vars

\* GlobalHotkeyThread.run, one turn of "while self.running: self.msleep(100)":
\* the thread sleeps and checks again, or finds the flag cleared, leaves the
\* loop and the GlobalHotKeys context and returns.
Run ==
    /\ hotkey_thread.pc = "polling"
    /\ hotkey_thread' = IF hotkey_thread.running
                        THEN hotkey_thread
                        ELSE [hotkey_thread EXCEPT !.pc = "finished"]
    /\ UNCHANGED << capture_controller, created, shown, ctrl, annotation_window,
                    emitted, logged, last_op, cancelled, emit_count, gesture_press,
                    propagated, pending >>

\* The program with the tray menu's quit and the listener's thread, captures
\* started from the tray menu and made with the primary button.  The UI
\* thread dispatches no handler after app.quit(); the listener's thread
\* runs on.
NextThread ==
    \/ Running /\ TrayMenuCapture
    \/ Running /\ \E pos \in PressPoints : MousePressEvent("LeftButton", pos)
    \/ Running /\ \E pos \in DrawingPoints(DragPoints) : MouseReleaseEvent("LeftButton", pos)
    \/ Running /\ QuitApplication
    \/ Run

\* msleep(100) returns and the operating system schedules the thread, so a
\* turn of the loop that is due is taken.
SpecThread == Init /\ [][NextThread]_vars /\ WF_vars(Run)

\* QPoint.isNull(): both coordinates are 0
IsNull(p) == p.x = 0 /\ p.y = 0

\* paintEvent on the overlay on screen: the dim fill over the whole widget,
\* then, if drawing and neither point isNull(), the outline and the tinted
\* fill of the normalized rectangle of start_point and end_point.
PaintEvent ==
    /\ capture_controller # 0
    /\ capture_controller \in shown
    /\ last_op' = [Op("paintEvent", capture_controller, "none") EXCEPT !.painted =
            << [what |-> "dim", rect |-> "widget"] >> \o
            ( IF ctrl.is_drawing /\ ~IsNull(ctrl.start_point) /\ ~IsNull(ctrl.end_point)
              THEN LET rect == QRectNormalized(QRect(ctrl.start_point, ctrl.end_point))
                   IN  << [what |-> "outline", rect |-> rect],
                          [what |-> "tint", rect |-> rect] >>
              ELSE << >> )]
    /\ emitted' = << >>
    /\ logged' = << >>
    /\ propagated' = FALSE
    /\ UNCHANGED << capture_controller, created, shown, ctrl, annotation_window,
                    cancelled, emit_count, gesture_press, pending, hotkey_thread >>

\* The program with the overlay's repaints.
NextPaint ==
    \/ Next
    \/ PaintEvent

SpecPaint == Init /\ [][NextPaint]_vars

\* ---------------------------------------------------- AnnotationWindow
\* build_json_structure storing a box re-ordered from the capture's.
BuildJsonStructureSwapped(capture_data) ==
    [location_info |->
        [bounding_box |-> << capture_data.bounding_box[3], capture_data.bounding_box[4],
                             capture_data.bounding_box[1], capture_data.bounding_box[2] >>]]

\* build_json_structure, as far as the capture goes: location_info.bounding_box
\* is capture_data.bounding_box.
BuildJsonStructure(capture_data) ==
    [location_info |-> [bounding_box |-> capture_data.bounding_box]]

\* save_screenshot: the PNG file holds the image.
SaveScreenshot(screenshot_image) == [kind |-> "png", image |-> screenshot_image]

\* save_json_file: json.dump writes the structure.
SaveJsonFile(json_data) == [kind |-> "json", data |-> json_data]

\* generate_and_save writing the record whether or not the screenshot was
\* saved, and the record first.
FilesWrittenJsonFirst(capture_data, outcome) ==
    << SaveJsonFile(BuildJsonStructure(capture_data)) >> \o
    ( IF outcome = "ok" THEN << SaveScreenshot(capture_data.screenshot_image) >>
                        ELSE << >> )

\* The files generate_and_save has written when it ends with outcome:
\* build_json_structure comes first, then save_screenshot, then
\* save_json_file, and a failure ends the call.
FilesWritten(capture_data, outcome) ==
    IF outcome \in {"build_raised", "screenshot_failed"}
    THEN << >>
    ELSE IF outcome = "json_failed"
         THEN << SaveScreenshot(capture_data.screenshot_image) >>
         ELSE << SaveScreenshot(capture_data.screenshot_image),
                 SaveJsonFile(BuildJsonStructure(capture_data)) >>

\* generate_and_save(form_data, capture_data): the returned success flag,
\* whether an exception left the call (its "except Exception" returns
\* (False, str(e))), and the files written.
GenerateAndSave(capture_data, outcome) ==
    [success |-> outcome = "ok", escaped |-> FALSE,
     written |-> FilesWritten(capture_data, outcome)]

\* The log of generate_and_save and of save_json after it.
SaveLog(outcome) ==
    IF outcome = "ok"
    THEN << Log("info", "screenshot_saved"),
            Log("info", "json_file_saved"),
            Log("info", "json_saved") >>
    ELSE IF outcome = "screenshot_failed"
         THEN << Log("error", "screenshot_failed"),
                 Log("error", "json_save_failed") >>
         ELSE IF outcome = "json_failed"
              THEN << Log("info", "screenshot_saved"),
                      Log("error", "json_file_failed"),
                      Log("error", "json_save_failed") >>
              ELSE << Log("error", "generate_failed"),
                      Log("error", "traceback"),
                      Log("error", "json_save_failed") >>

\* A line edit's text is a sequence of characters.
Whitespace == {" ", "\t"}

\* str.strip(): the text without its leading and trailing whitespace
RECURSIVE Strip(_)
Strip(text) ==
    IF text = << >>
    THEN << >>
    ELSE IF Head(text) \in Whitespace
         THEN Strip(Tail(text))
         ELSE IF text[Len(text)] \in Whitespace
              THEN Strip(SubSeq(text, 1, Len(text) - 1))
              ELSE text

\* the character class [a-z0-9_]
IdChars ==
    {"a", "b", "c", "d", "e", "f", "g", "h", "i", "j", "k", "l", "m",
     "n", "o", "p", "q", "r", "s", "t", "u", "v", "w", "x", "y", "z",
     "0", "1", "2", "3", "4", "5", "6", "7", "8", "9", "_"}

\* re.match(r'^[a-z0-9_]+$', element_id) on a stripped text
MatchesId(text) == text # << >> /\ \A i \in 1 .. Len(text) : text[i] \in IdChars

\* validate_form checking the two other required fields only.
ValidateFormNoId(form) ==
    ( IF Strip(form.software_version) = << >> THEN << "software_version_empty" >> ELSE << >> ) \o
    ( IF Strip(form.author) = << >> THEN << "author_empty" >> ELSE << >> )

\* validate_form: one error for each required field whose stripped text is
\* empty, and one if the stripped element_id is not empty and does not match.
ValidateForm(form) ==
    ( IF Strip(form.element_id) = << >> THEN << "element_id_empty" >> ELSE << >> ) \o
    ( IF Strip(form.software_version) = << >> THEN << "software_version_empty" >> ELSE << >> ) \o
    ( IF Strip(form.author) = << >> THEN << "author_empty" >> ELSE << >> ) \o
    ( IF Strip(form.element_id) # << >> /\ ~MatchesId(Strip(form.element_id))
      THEN << "element_id_format" >> ELSE << >> )

\* clear_form: the text fields emptied
ClearForm == [element_id |-> << >>, software_version |-> << >>, author |-> << >>]

\* The form with nothing typed, and a form filled in as required.
EmptyForm == ClearForm
FilledForm ==
    [element_id |-> << "b", "_", "1" >>, software_version |-> << "1" >>,
     author |-> << "a" >>]

\* The texts typed into the three required fields.
ElementIds ==
    { << >>, << " " >>, << "b", "_", "1" >>, << " ", "b", "1", " " >>,
      << "B", "1" >>, << "b", "-", "1" >> }
Versions == { << >>, << "1" >> }
Authors == { << >>, << "a" >> }
Forms == [element_id : ElementIds, software_version : Versions, author : Authors]

\* save_json normalising the capture's box in place before it is written.
SaveJsonInPlace(form, outcome) ==
    /\ annotation_window # << >>
    /\ annotation_window[1].visible
    /\ LET capture_data == annotation_window[1].capture_data
           box == capture_data.bounding_box
           changed == [capture_data EXCEPT
                          !.bounding_box = << box[1], box[2], box[3] - 1, box[4] - 1 >>]
           valid == ValidateForm(form) = << >>
       IN  /\ annotation_window' = << AnnotationWindow(IF valid THEN changed
                                                       ELSE capture_data) >>
           /\ last_op' = [Op("save_json", capture_controller, "none")
                            EXCEPT !.outcome = IF valid THEN "ok" ELSE "invalid",
                                   !.written = IF valid
                                               THEN FilesWritten(changed, "ok")
                                               ELSE << >>]
    /\ emitted' = << >>
    /\ logged' = << >>
    /\ propagated' = FALSE
    /\ UNCHANGED << capture_controller, created, shown, ctrl, cancelled, emit_count,
                    gesture_press, pending, hotkey_thread >>

\* AnnotationWindow.save_json with the form as typed: a form that fails
\* validate_form ends in a warning; one that passes is collected and handed
\* with self.capture_data to generate_and_save, which reads the capture and
\* writes the PNG and the JSON file and ends with outcome; the form is
\* cleared after a success.
SaveJson(form, outcome) ==
    /\ annotation_window # << >>
    /\ annotation_window[1].visible
    /\ LET capture_data == annotation_window[1].capture_data
           called == GenerateAndSave(capture_data, outcome)
           op == Op("save_json", capture_controller, "none")
       IN  IF ValidateForm(form) # << >>
           THEN /\ last_op' = [op EXCEPT !.outcome = "invalid",
                                        !.save = [form |-> form, form_after |-> form,
                                                  generate_calls |-> 0,
                                                  success |-> FALSE, escaped |-> FALSE]]
                /\ logged' = << >>
                /\ propagated' = FALSE
           ELSE /\ last_op' = [op EXCEPT !.outcome = outcome,
                                        !.written = called.written,
                                        !.save = [form |-> form,
                                                  form_after |-> IF called.success
                                                                 THEN ClearForm ELSE form,
                                                  generate_calls |-> 1,
                                                  success |-> called.success,
                                                  escaped |-> called.escaped]]
                /\ logged' = SaveLog(outcome)
                /\ propagated' = FALSE
    /\ emitted' = << >>
    /\ UNCHANGED << capture_controller, created, shown, ctrl, annotation_window,
                    cancelled, emit_count, gesture_press, pending, hotkey_thread >>

\* The ways of generate_and_save to enumerate for a form: a form that fails
\* validate_form never reaches the call.
OutcomesFor(form, outcomes) == IF ValidateForm(form) = << >> THEN outcomes ELSE {"ok"}

\* The program with the annotation window's save button: captures started
\* from the tray menu and made with the primary button, the form left empty
\* or filled in as required, build_json_structure not raising.
NextSave ==
    \/ TrayMenuCapture
    \/ \E pos \in PressPoints : MousePressEvent("LeftButton", pos)
    \/ \E pos \in DrawingPoints(DragPoints) : MouseMoveEvent(pos)
    \/ \E pos \in DrawingPoints(DragPoints) : MouseReleaseEvent("LeftButton", pos)
    \/ KeyPressEvent("Key_Escape")
    \/ \E form \in {EmptyForm, FilledForm} :
         \E outcome \in OutcomesFor(form, SaveOutcomes) : SaveJson(form, outcome)

SpecSave == Init /\ [][NextSave]_vars

\* A click on the save button while the application references no overlay.
SaveBetweenCaptures(form, outcome) ==
    /\ capture_controller = 0
    /\ SaveJson(form, outcome)

\* The annotation window's save button with every form and every way
\* generate_and_save ends, between captures made by a press and a release.
NextForm ==
    \/ TrayMenuCapture
    \/ \E pos \in PressPoints : MousePressEvent("LeftButton", pos)
    \/ \E pos \in DrawingPoints(DragPoints) : MouseReleaseEvent("LeftButton", pos)
    \/ \E form \in Forms :
         \E outcome \in OutcomesFor(form, GenerateOutcomes) :
            SaveBetweenCaptures(form, outcome)

SpecForm == Init /\ [][NextForm]_vars

\* The same program with the hotkey listener's thread and the signal queue
\* between it and the UI thread, every capture started from the hotkey.
NextHotkey ==
    \/ OnHotkeyPressed
    \/ HotkeyDelivered
    \/ \E button \in Buttons :
         \E pos \in EventPoints(button, PressPoints) : MousePressEvent(button, pos)
    \/ \E pos \in DrawingPoints(DragPoints) : MouseMoveEvent(pos)
    \/ \E button \in Buttons :
         \E pos \in DrawingPoints(EventPoints(button, DragPoints)) :
            MouseReleaseEvent(button, pos)
    \/ \E key \in Keys : KeyPressEvent(key)

SpecHotkey == Init /\ [][NextHotkey]_vars

\* ================================================================ claims
Min(a, b) == IF a < b THEN a ELSE b
Max(a, b) == IF a < b THEN b ELSE a
Abs(a) == IF a < 0 THEN -a ELSE a

\* The last handler was a pointer-up that ended a drag (perform_capture ran).
GestureEnded == last_op.op = "mouseReleaseEvent" /\ last_op.outcome # "none"

\* The boxes perform_capture emits for a press at s and a release at e when
\* the grab succeeds: none, or one.
EmittedBoxes(s, e) ==
    IF TooSmall(SelectionRect(s, e)) THEN {} ELSE {ScreenRect(SelectionRect(s, e))}

\* The four gestures that span the geometric rectangle with corners p and q.
CornerGestures(p, q) ==
    LET tl == [x |-> Min(p.x, q.x), y |-> Min(p.y, q.y)]
        br == [x |-> Max(p.x, q.x), y |-> Max(p.y, q.y)]
        tr == [x |-> Max(p.x, q.x), y |-> Min(p.y, q.y)]
        bl == [x |-> Min(p.x, q.x), y |-> Max(p.y, q.y)]
    IN  { << tl, br >>, << br, tl >>, << tr, bl >>, << bl, tr >> }

\* C1: every emitted CaptureResult carries a box [x1,y1,x2,y2] with x1 < x2
\* and y1 < y2, whatever the pointer events were.
C1_BoxIsOrdered ==
    \A i \in 1 .. Len(emitted) :
        LET b == emitted[i].bounding_box
        IN  b[1] < b[3] /\ b[2] < b[4]

\* A result was emitted for a drag that went leftwards and upwards.
C1_Witness ==
    /\ Len(emitted) = 1
    /\ last_op.release.x < last_op.press.x
    /\ last_op.release.y < last_op.press.y

\* C2: the four gestures over one geometric rectangle all emit the same box;
\* swapping press and release never changes the emitted box.
C2_FourDirectionsAgree ==
    \A i \in 1 .. Len(emitted) :
        \A g \in CornerGestures(last_op.press, last_op.release) :
            EmittedBoxes(g[1], g[2]) = {emitted[i].bounding_box}

\* C3: the emitted box is [min(sx,ex), min(sy,ey), max(sx,ex), max(sy,ey)]
\* of the press point (sx,sy) and the release point (ex,ey).
C3_BoxIsMinMax ==
    \A i \in 1 .. Len(emitted) :
        LET s == last_op.press
            e == last_op.release
        IN  emitted[i].bounding_box =
                << Min(s.x, e.x), Min(s.y, e.y), Max(s.x, e.x), Max(s.y, e.y) >>

\* C4: a gesture whose press and release are fewer than 10 pixels apart in x
\* or in y produces no result; one with at least 10 pixels in both (and a
\* successful grab) produces one.
C4_MinimumExtent ==
    GestureEnded =>
        LET dx == Abs(last_op.release.x - last_op.press.x)
            dy == Abs(last_op.release.y - last_op.press.y)
        IN  /\ (dx < MinSize \/ dy < MinSize) => emitted = << >>
            /\ (dx >= MinSize /\ dy >= MinSize) => last_op.outcome # "too_small"
            /\ (dx >= MinSize /\ dy >= MinSize /\ last_op.outcome = "ok")
                   => Len(emitted) = 1

\* C5: after Escape on a shown overlay the instance never emits, and it is
\* left closed and no longer dragging.
C5_EscapeIsTerminal ==
    cancelled =>
        /\ emitted = << >>
        /\ capture_controller # 0 =>
               /\ capture_controller \notin shown
               /\ ~ctrl.is_drawing

\* C6: when the grab or the conversion raises during a pointer-up, nothing is
\* emitted, an error is logged, the overlay is closed and no exception
\* leaves the handler.
C6_GrabFailureContained ==
    (GestureEnded /\ last_op.outcome \in {"grab_raised", "convert_raised"}) =>
        /\ emitted = << >>
        /\ \E i \in 1 .. Len(logged) : logged[i].level = "error"
        /\ last_op.inst \notin shown
        /\ ~propagated

\* A pointer-up on a shown overlay passed the size check and the grab raised.
C6_Witness ==
    /\ GestureEnded
    /\ last_op.outcome = "grab_raised"
    /\ last_op.was_shown

\* C7: at most one overlay is shown at any time, and it is the one the
\* application references: a start-capture closes the overlay in use before
\* the new one is shown.
C7_OneOverlay ==
    /\ Cardinality(shown) <= 1
    /\ shown \subseteq {capture_controller}

\* A start-capture arrived while an overlay was on screen.
C7_Witness ==
    /\ last_op.op = "start_capture"
    /\ last_op.was_shown
    /\ shown = {capture_controller}

\* C8: an overlay instance emits at most once, exactly once for a gesture
\* that passes the size check with a successful grab, and never once it has
\* been closed (Completing or Cancelled).
C8_SingleUse ==
    /\ emit_count <= 1
    /\ (GestureEnded /\ last_op.outcome = "ok") => Len(emitted) = 1
    /\ emitted # << >> => last_op.was_shown

\* C9: the emitted bitmap's width and height are (x2 - x1, y2 - y1) of the
\* box in the same CaptureResult.
C9_BitmapMatchesBox ==
    \A i \in 1 .. Len(emitted) :
        LET b == emitted[i].bounding_box
        IN  emitted[i].screenshot_image.size = << b[3] - b[1], b[4] - b[2] >>

\* A result was emitted for a region that does not start at the origin.
C9_Witness ==
    /\ Len(emitted) = 1
    /\ emitted[1].bounding_box[1] > 0
    /\ emitted[1].bounding_box[2] > 0

\* C10: every emitted box consists of four non-negative integers, also when
\* the pointer was dragged outside the overlay.
C10_BoxNonNegative ==
    \A i \in 1 .. Len(emitted) :
        \A k \in 1 .. 4 :
            /\ emitted[i].bounding_box[k] \in Int
            /\ emitted[i].bounding_box[k] >= 0

\* ---------------------------------------------------------------- C11
\* The ways a capture attempt ends without a result.
FailureEnds == {"too_small", "grab_raised", "convert_raised", "escape"}

\* C11: an attempt that ends without success (selection too small, grab or
\* conversion failure, Escape) leaves its overlay closed with nothing emitted
\* and the grab not repeated; and a start_capture that then runs through shows
\* one new overlay in Idle (not drawing, start and end unset, its grabber
\* open), whichever way the attempt before it ended.
C11_FailureLeavesReady ==
    /\ EndOf(last_op) \in FailureEnds /\ last_op.op # "start_capture" =>
          /\ last_op.inst \notin shown
          /\ emitted = << >>
          /\ last_op.grabs <= 1
    /\ last_op.op = "start_capture" /\ last_op.outcome = "ok" =>
          /\ capture_controller = created
          /\ last_op.inst # capture_controller
          /\ shown = {capture_controller}
          /\ ctrl.is_drawing = FALSE
          /\ ctrl.start_point = QPoint0
          /\ ctrl.end_point = QPoint0
          /\ ctrl.sct_open

\* A start_capture ran through right after a grab failure.
C11_Witness ==
    /\ last_op.op = "start_capture"
    /\ last_op.outcome = "ok"
    /\ last_op.prev = "grab_raised"
    /\ capture_controller \in shown

\* ---------------------------------------------------------------- C12
\* The state of a capture: the application's overlay reference, the overlays
\* made and shown, the overlay's fields, and the annotation window.
CaptureState ==
    << capture_controller, created, shown, ctrl, annotation_window,
       cancelled, emit_count, gesture_press >>

\* C12: a step of the hotkey listener's thread changes nothing of the capture
\* state: it queues one hotkey_pressed signal, which carries no argument, and
\* emits no capture result; every step that creates, closes or changes an
\* overlay runs on the UI thread.
C12_ListenerOnlySignals ==
    [][ /\ last_op'.thread = "listener" =>
              /\ CaptureState' = CaptureState
              /\ pending' = pending + 1
              /\ last_op'.input = "none"
              /\ emitted' = << >>
        /\ CaptureState' # CaptureState => last_op'.thread = "ui"
      ]_vars

\* The listener signalled while the overlay was in the middle of a drag.
C12_Witness ==
    /\ last_op.thread = "listener"
    /\ pending = 1
    /\ capture_controller \in shown
    /\ ctrl.is_drawing

\* ---------------------------------------------------------------- C13
\* The last handler was a save that wrote both files.
Saved == last_op.op = "save_json" /\ last_op.outcome = "ok"

\* The JSON structures among the files the last handler wrote.
WrittenJson ==
    { last_op.written[i].data : i \in { j \in 1 .. Len(last_op.written) :
                                          last_op.written[j].kind = "json" } }

\* C13: the record a save writes holds, as location_info.bounding_box, the
\* box of the capture the annotation window was opened with, unchanged: four
\* integers [x1, y1, x2, y2] with x1 < x2 and y1 < y2.
C13_JsonBoxIsCaptureBox ==
    Saved =>
        /\ Cardinality(WrittenJson) = 1
        /\ \A json_data \in WrittenJson :
            LET box == json_data.location_info.bounding_box
            IN  /\ box = annotation_window[1].capture_data.bounding_box
                /\ Len(box) = 4
                /\ \A i \in 1 .. 4 : box[i] \in Int
                /\ box[1] < box[3]
                /\ box[2] < box[4]

\* A save wrote the record of a capture.
C13_Witness ==
    /\ Saved
    /\ Len(last_op.written) = 2
    /\ annotation_window # << >>

\* ---------------------------------------------------------------- C14
\* A step that hands a new capture to a new annotation window.
HandOff == emitted' # << >> /\ last_op'.completed = "ok"

\* C14: the capture the annotation window is opened with is the capture as
\* it was emitted, and no later step changes it: across every step but the
\* hand-off of a newer capture, saves included, the window's capture keeps
\* its box and its image.
C14_CaptureNeverMutated ==
    [][ /\ HandOff =>
              /\ annotation_window' # << >>
              /\ annotation_window'[1].capture_data = emitted'[1]
        /\ (annotation_window # << >> /\ ~HandOff) =>
              /\ annotation_window' # << >>
              /\ annotation_window'[1].capture_data = annotation_window[1].capture_data
      ]_vars

\* A save of the capture while a later overlay is in the middle of a drag,
\* well after the hand-off.
C14_Witness ==
    /\ Saved
    /\ annotation_window # << >>
    /\ capture_controller \in shown
    /\ ctrl.is_drawing

\* ---------------------------------------------------------------- C15
\* C15: when a pointer-up emits a capture, then by the time the pointer-up
\* handler returns the emitting overlay is closed and the application
\* references no overlay; and unless opening the annotation window raised,
\* the application's annotation window is on screen and holds exactly the
\* emitted capture.
C15_ReceiverClosesOverlay ==
    emitted # << >> =>
        /\ last_op.op = "mouseReleaseEvent"
        /\ last_op.inst # 0
        /\ last_op.inst \notin shown
        /\ capture_controller = 0
        /\ shown = {}
        /\ last_op.completed = "ok" =>
              annotation_window = << [capture_data |-> emitted[1], visible |-> TRUE] >>

\* A capture was emitted by a shown overlay and its annotation window opened.
C15_Witness ==
    /\ emitted # << >>
    /\ last_op.was_shown
    /\ last_op.completed = "ok"
    /\ annotation_window # << >>

\* ---------------------------------------------------------------- C16
\* The last handler was a primary-button press on an overlay.
Pressed == last_op.op = "mousePressEvent" /\ last_op.input = "LeftButton"

\* C16: after a primary-button press on an overlay, the start point and the
\* end point are both the pointer position, the overlay is drawing, nothing
\* was emitted, and the overlay is on screen as it was before and still the
\* application's.
C16_PressStartsDrag ==
    Pressed =>
        /\ ctrl.start_point = gesture_press
        /\ ctrl.end_point = gesture_press
        /\ ctrl.is_drawing
        /\ emitted = << >>
        /\ capture_controller = last_op.inst
        /\ (capture_controller \in shown) = last_op.was_shown

\* A primary press away from the origin on an overlay on screen.
C16_Witness ==
    /\ Pressed
    /\ last_op.was_shown
    /\ capture_controller \in shown
    /\ gesture_press = [x |-> MinSize, y |-> MinSize + 1]
    /\ ctrl.end_point = gesture_press

\* ---------------------------------------------------------------- C18
\* C18: a pointer-up whose rectangle fails the size check requests no grab
\* and leaves the overlay closed with nothing emitted; a pointer-up requests
\* at most one grab, and one only when width and height are both at least
\* MinSize; a failed grab is not repeated.
C18_GrabOnlyAfterSizeCheck ==
    /\ last_op.grabs \in {0, 1}
    /\ last_op.grabs = 1 =>
          /\ GestureEnded
          /\ RectWidth(SelectionRect(last_op.press, last_op.release)) >= MinSize
          /\ RectHeight(SelectionRect(last_op.press, last_op.release)) >= MinSize
    /\ (GestureEnded /\ last_op.outcome = "too_small") =>
          /\ last_op.grabs = 0
          /\ last_op.inst \notin shown
          /\ emitted = << >>
    /\ (GestureEnded /\ last_op.outcome # "too_small") => last_op.grabs = 1

\* A pointer-up on a shown overlay ended a drag one pixel short in width.
C18_Witness ==
    /\ GestureEnded
    /\ last_op.was_shown
    /\ last_op.outcome = "too_small"
    /\ RectWidth(SelectionRect(last_op.press, last_op.release)) = MinSize - 1
    /\ RectHeight(SelectionRect(last_op.press, last_op.release)) >= MinSize

\* ---------------------------------------------------------------- C17
\* The rectangles the last repaint outlined.
Outlined ==
    { last_op.painted[i].rect : i \in { j \in 1 .. Len(last_op.painted) :
                                          last_op.painted[j].what = "outline" } }

\* C17: a repaint while the overlay is drawing outlines the normalized
\* rectangle of start and end, wherever the two points are, the origin
\* (0,0) included; a repaint while it is not drawing outlines nothing.
C17_RectangleWhileDragging ==
    last_op.op = "paintEvent" =>
        Outlined = IF ctrl.is_drawing
                   THEN { QRectNormalized(QRect(ctrl.start_point, ctrl.end_point)) }
                   ELSE {}

\* ---------------------------------------------------------------- C19
\* The step takes the overlay on screen off the screen and emits nothing.
ClosedWithoutEmission == shown \ shown' # {} /\ emitted' = << >>

\* The step is an Escape key press on the overlay on screen.
ByEscape ==
    /\ last_op'.op = "keyPressEvent"
    /\ last_op'.input = "Key_Escape"
    /\ last_op'.inst \in shown

\* The step is a pointer-up that ended in the size-check abort or in a
\* failed grab.
ByAbortOrFailure ==
    /\ last_op'.op = "mouseReleaseEvent"
    /\ last_op'.outcome \in {"too_small", "grab_raised", "convert_raised"}

\* C19 as stated: an overlay on screen leaves the screen without an emission
\* only by an Escape key press on it, the pointer-up abort or a grab failure.
C19_EscapeOnlyCancellation ==
    [][ ClosedWithoutEmission => ByEscape \/ ByAbortOrFailure ]_vars

\* C19 amended: an overlay on screen leaves the screen without an emission
\* only by an Escape key press on it, the pointer-up abort, a grab failure,
\* a new start_capture tearing it down, or quit_application; no other key,
\* pointer event or other step closes it.
C19_CancellationPaths ==
    [][ ClosedWithoutEmission =>
            \/ ByEscape
            \/ ByAbortOrFailure
            \/ last_op'.op = "start_capture"
            \/ last_op'.op = "quit_application"
      ]_vars

\* A start_capture tore down the overlay on screen and showed a new one.
C19_Witness ==
    /\ last_op.op = "start_capture"
    /\ last_op.was_shown
    /\ last_op.inst \notin shown
    /\ last_op.outcome = "ok"

\* ---------------------------------------------------------------- C20
\* The last handler logged an error.
ErrorLogged == \E i \in 1 .. Len(logged) : logged[i].level = "error"

\* The last handler was a start_capture in which constructing or showing the
\* overlay raised.
StartRaised ==
    last_op.op = "start_capture" /\ last_op.outcome \in {"create_raised", "show_raised"}

\* The last handler's on_capture_completed raised while opening the
\* annotation window.
CompletedRaised == last_op.completed = "window_raised"

\* C20: an exception raised in start_capture or in on_capture_completed is
\* logged as an error and does not leave the handler; the overlay the
\* completed capture came from is closed and dropped all the same; and a
\* start_capture that runs through afterwards shows a new overlay.
C20_ErrorsContained ==
    /\ StartRaised \/ CompletedRaised => ErrorLogged /\ ~propagated
    /\ StartRaised => shown = {}
    /\ CompletedRaised => shown = {} /\ capture_controller = 0
    /\ (/\ last_op.op = "start_capture"
        /\ last_op.outcome = "ok"
        /\ last_op.prev \in {"create_raised", "show_raised", "window_raised"}) =>
             /\ capture_controller = created
             /\ capture_controller \in shown
             /\ ~ctrl.is_drawing

\* A start_capture showed a new overlay right after one whose constructor
\* raised.
C20_Witness ==
    /\ last_op.op = "start_capture"
    /\ last_op.outcome = "ok"
    /\ last_op.prev = "create_raised"
    /\ capture_controller \in shown

\* ---------------------------------------------------------------- C21
\* The step is an event outside a primary-button gesture: a move or a
\* pointer-up while the dragging flag is unset, a press or release of another
\* button, or a key other than Escape.
InertEvent ==
    \/ last_op'.op = "mouseMoveEvent" /\ ~ctrl.is_drawing
    \/ last_op'.op = "mouseReleaseEvent" /\ ~ctrl.is_drawing
    \/ last_op'.op \in {"mousePressEvent", "mouseReleaseEvent"}
          /\ last_op'.input # "LeftButton"
    \/ last_op'.op = "keyPressEvent" /\ last_op'.input # "Key_Escape"

\* C21: an event outside a primary-button gesture leaves start point, end
\* point and dragging flag as they were, emits nothing, requests no repaint
\* and closes nothing.
C21_InertEventsChangeNothing ==
    [][ InertEvent =>
            /\ ctrl' = ctrl
            /\ emitted' = << >>
            /\ last_op'.updates = 0
            /\ shown' = shown
            /\ capture_controller' = capture_controller
            /\ annotation_window' = annotation_window
      ]_vars

\* A pointer-move reached an Idle overlay on screen whose last gesture point
\* lies elsewhere, and changed nothing.
C21_Witness ==
    /\ last_op.op = "mouseMoveEvent"
    /\ last_op.updates = 0
    /\ ~ctrl.is_drawing
    /\ capture_controller \in shown

\* ---------------------------------------------------------------- C22
\* C22: what a pointer-up that ends a drag does is fixed by the press and the
\* release position alone, whatever positions the drag passed through: it
\* aborts exactly if the rectangle of press and release fails the size
\* check, and a box it emits is the box of that rectangle.
C22_MovesDoNotMatter ==
    GestureEnded =>
        LET rect == SelectionRect(last_op.press, last_op.release)
        IN  /\ (last_op.outcome = "too_small") = TooSmall(rect)
            /\ (last_op.outcome = "ok") = (emitted # << >>)
            /\ emitted # << >> => emitted[1].bounding_box = ScreenRect(rect)

\* A drag that passed through a third position ended in a capture.
C22_Witness ==
    /\ GestureEnded
    /\ last_op.outcome = "ok"
    /\ last_op.was_shown
    /\ emitted # << >>

\* The last handler was a click on the save button that reached
\* generate_and_save.
Generated == last_op.op = "save_json" /\ last_op.save.generate_calls = 1

\* The kinds of the files written, in the order of writing.
WrittenKinds == [i \in 1 .. Len(last_op.written) |-> last_op.written[i].kind]

\* C23: generate_and_save writes the screenshot before the JSON record and
\* reports success only if both were written; when the screenshot cannot be
\* saved no JSON file is written and the result is (False, message); when
\* the JSON cannot be saved the result is (False, message); whatever is
\* raised inside the call, build_json_structure included, is caught there.
C23_ScreenshotThenJson ==
    Generated =>
        /\ ~last_op.save.escaped
        /\ ~propagated
        /\ \A i \in 1 .. Len(WrittenKinds) :
              WrittenKinds[i] = "json" => i > 1 /\ WrittenKinds[i - 1] = "png"
        /\ last_op.save.success => WrittenKinds = << "png", "json" >>
        /\ last_op.outcome = "screenshot_failed" =>
              /\ ~last_op.save.success
              /\ \A i \in 1 .. Len(WrittenKinds) : WrittenKinds[i] # "json"
        /\ last_op.outcome \in {"json_failed", "build_raised"} => ~last_op.save.success

\* A save whose screenshot could not be written.
C23_Witness ==
    /\ Generated
    /\ last_op.outcome = "screenshot_failed"
    /\ last_op.written = << >>
    /\ ~last_op.save.success

\* A form the save must refuse: a required field whose text, as the window
\* reads it (text().strip()), is empty, or an element_id with a character
\* other than a lowercase letter, a digit or an underscore.
Defective(form) ==
    \/ Strip(form.element_id) = << >>
    \/ Strip(form.software_version) = << >>
    \/ Strip(form.author) = << >>
    \/ \E i \in 1 .. Len(Strip(form.element_id)) : Strip(form.element_id)[i] \notin IdChars

\* C24: a click on the save button with a defective form does not call
\* generate_and_save, writes no file and leaves the form as it was typed;
\* the form is cleared only after generate_and_save reported success.
C24_InvalidFormWritesNothing ==
    last_op.op = "save_json" =>
        /\ Defective(last_op.save.form) =>
              /\ last_op.outcome = "invalid"
              /\ last_op.save.generate_calls = 0
              /\ last_op.written = << >>
              /\ last_op.save.form_after = last_op.save.form
        /\ last_op.save.form_after # last_op.save.form =>
              /\ last_op.save.form_after = ClearForm
              /\ last_op.save.generate_calls = 1
              /\ last_op.save.success

\* A save refused for nothing but an uppercase letter in element_id.
C24_Witness ==
    /\ last_op.op = "save_json"
    /\ last_op.save.form = [FilledForm EXCEPT !.element_id = << "B", "1" >>]
    /\ last_op.outcome = "invalid"
    /\ last_op.written = << >>

\* C25: at most one annotation window is on screen at any time: a capture
\* that completes while an earlier window is open closes that window before
\* AnnotationWindow(capture_data) is constructed, and the window the
\* application then references holds the CaptureData just emitted.
C25_OneAnnotationWindow ==
    /\ OpenWindows(annotation_window) <= 1
    /\ (last_op.op = "mouseReleaseEvent" /\ last_op.completed = "ok") =>
          /\ last_op.windows.open = 1
          /\ annotation_window = << AnnotationWindow(emitted[1]) >>

\* A capture completed while the window of an earlier capture was open.
C25_Witness ==
    /\ last_op.op = "mouseReleaseEvent"
    /\ last_op.completed = "ok"
    /\ last_op.windows.found = 1
    /\ last_op.windows.open = 1
    /\ annotation_window = << AnnotationWindow(emitted[1]) >>

\* quit_application has run.
QuitInvoked == last_op.op = "quit_application"

\* C26: once quit_application has run, the listener's running flag is
\* cleared and its polling loop eventually ends, and when the event loop is
\* asked to quit (the handler's last statement) no overlay and no annotation
\* window is on screen.
C26_QuitStopsListenerAndCloses ==
    /\ [](QuitInvoked =>
            /\ ~hotkey_thread.running
            /\ shown = {}
            /\ OpenWindows(annotation_window) = 0)
    /\ (QuitInvoked ~> hotkey_thread.pc = "finished")

\* The quit came while an overlay was shown over an open annotation window,
\* and the listener's loop has ended.
C26_Witness ==
    /\ QuitInvoked
    /\ last_op.was_shown
    /\ annotation_window # << >>
    /\ ~annotation_window[1].visible
    /\ hotkey_thread.pc = "finished"

====
